---- MODULE Spec2Model ----
(***************************************************************************)
(* Model of package tail (tail.go, watch/filechanges.go): the File         *)
(* constructor, the tailFileSync loop with reopen / readLine / seekTo /    *)
(* waitForChanges, the tomb it embeds, the Lines channel, and the file     *)
(* system and watcher it runs against.                                     *)
(*                                                                         *)
(* Strings are sequences of one-character strings.  A file identity        *)
(* (inode) is a number 1..MaxFiles; 0 is "no file" (nil handle, absent     *)
(* path).  Config.Pipe describes the file as a FIFO: lseek on such a       *)
(* handle fails with ESPIPE, on a regular file it succeeds.                *)
(***************************************************************************)
EXTENDS Integers, Sequences, FiniteSets, TLC

\* ------------------------------------------------------------------ bounds
\* bytes the writers append in a run
MaxLen == 2
\* file identities ever created at the path
MaxFiles == 2
\* truncations the writer performs
MaxTruncs == 1
\* bytes one fill of the bufio.Reader takes from the file
BufSize == 2

NL == "\n"
Chars == {"x", NL}

VARIABLES
    \* Config (tail.go 47-57)
    Location, ReOpen, MustExist, Pipe, Follow,
    \* Tail (tail.go 60-70)
    file,       \* tail.file: identity of the open file, 0 = nil
    fpos,       \* cursor of the handle tail.file
    reader,     \* tail.reader: "nil", "attached" (reads tail.file), "stale" (reads a closed handle)
    buf,        \* bytes the bufio.Reader holds unread
    watcher,    \* tail.watcher: "nil" or "created"
    changes,    \* tail.changes: "nil" or "set"
    tomb,       \* tail.Tomb: [reason, dying, dead]
    linesClosed,\* times close(tail.Lines) ran
    \* the caller of File
    handle,     \* File returned a *Tail
    startErr,   \* the error File returned
    stopper,    \* the task calling Stop: "idle", "waiting", "returned"
    stopResult, \* the error Stop returned
    \* the goroutine tailFileSync
    pc,         \* its position
    inWait,     \* reopen() was called from waitForChanges
    offset,     \* local offset of tailFileSync
    line,       \* local line
    err,        \* local err of the last readLine
    \* the watcher goroutine behind tail.changes
    wIno, wSize, wAlive,
    \* the file system
    path,       \* identity of the file at Filename, 0 = absent
    data,       \* content of each file identity
    nextIno,    \* next identity Create hands out
    truncs,     \* truncations performed
    written,    \* bytes appended
    \* history
    emitted,    \* the Lines the consumer received since the reader was last attached, in order
    lastIno,    \* identity of the file opened last
    startPos,   \* read position after the first open and the initial seek
    truncated,  \* identities that were truncated
    lastRotate, \* the last of the signals Deleted and Truncated that waitForChanges received
    ioFailed,   \* a system call failed other than open with not-found
    openHandles,\* OS handles open and not yet closed
    afterStop   \* the Lines the consumer received since Stop called Kill

cfgVars == <<Location, ReOpen, MustExist, Pipe, Follow>>
tailVars == <<file, fpos, reader, buf, watcher, changes, tomb, linesClosed>>
callerVars == <<handle, startErr, stopper, stopResult>>
loopVars == <<pc, inWait, offset, line, err>>
watchVars == <<wIno, wSize, wAlive>>
fsVars == <<path, data, nextIno, truncs, written, truncated>>
histVars == <<emitted, lastIno, startPos, lastRotate, ioFailed, openHandles, afterStop>>
vars == <<cfgVars, tailVars, callerVars, loopVars, watchVars, fsVars, histVars>>

\* ------------------------------------------------------------ pure helpers
Min(a, b) == IF a < b THEN a ELSE b

\* index of the first c in s, 0 when there is none
IndexOf(s, c) ==
    IF \E i \in 1..Len(s) : s[i] = c
    THEN CHOOSE i \in 1..Len(s) : s[i] = c /\ \A j \in 1..(i - 1) : s[j] # c
    ELSE 0

\* read(2) of at most n bytes at cursor pos of a file holding d
FileRead(d, pos, n) == SubSeq(d, pos + 1, Min(pos + n, Len(d)))

\* bufio.Reader.ReadString('\n'): the bytes up to and including the first
\* newline, refilling from the file while the buffer holds none; at end of
\* data the bytes collected so far come back with io.EOF.
RECURSIVE ReadFrom(_, _, _, _)
ReadFrom(acc, b, pos, d) ==
    LET i == IndexOf(b, NL) IN
    IF i > 0
    THEN [line |-> acc \o SubSeq(b, 1, i), buf |-> SubSeq(b, i + 1, Len(b)),
          fpos |-> pos, err |-> "nil"]
    ELSE LET chunk == FileRead(d, pos, BufSize) IN
         IF chunk = <<>>
         THEN [line |-> acc \o b, buf |-> <<>>, fpos |-> pos, err |-> "EOF"]
         ELSE ReadFrom(acc \o b, chunk, pos + Len(chunk), d)

\* strings.TrimRight(s, "\n")
RECURSIVE TrimRight(_)
TrimRight(s) ==
    IF s # <<>> /\ s[Len(s)] = NL THEN TrimRight(SubSeq(s, 1, Len(s) - 1)) ELSE s

\* readLine
readLine(b, pos, d) ==
    LET r == ReadFrom(<<>>, b, pos, d) IN
    IF r.err # "nil" THEN r ELSE [r EXCEPT !.line = TrimRight(r.line)]

\* os.File.Seek: the new cursor, or the error
Seek(off, whence, cur, size) ==
    LET p == CASE whence = 0 -> off
               [] whence = 1 -> cur + off
               [] OTHER -> size + off
    IN IF Pipe THEN [pos |-> cur, err |-> "ESPIPE"]
       ELSE IF p < 0 THEN [pos |-> cur, err |-> "EINVAL"]
       ELSE [pos |-> p, err |-> "nil"]

TellIgnoringBuffer ==
    IF file = 0 THEN [offset |-> 0, err |-> "nil"]
    ELSE LET s == Seek(0, 1, fpos, Len(data[file])) IN [offset |-> s.pos, err |-> s.err]

\* Tail.Tell
Tell ==
    IF file = 0 THEN [offset |-> 0, err |-> "nil"]
    ELSE LET s == Seek(0, 1, fpos, Len(data[file])) IN
         IF s.err # "nil" THEN [offset |-> s.pos, err |-> s.err]
         ELSE IF reader = "nil" THEN [offset |-> s.pos, err |-> "panic"]  \* nil.Buffered()
         ELSE [offset |-> s.pos - Len(buf), err |-> "nil"]

\* tomb.Kill
Kill(t, reason) ==
    IF reason = "ErrDying"
    THEN IF t.reason = "ErrStillAlive" THEN [t EXCEPT !.reason = "panic"] ELSE t
    ELSE IF t.reason = "nil" THEN [t EXCEPT !.reason = reason]
    ELSE IF t.reason # "ErrStillAlive" THEN t
    ELSE [t EXCEPT !.reason = reason, !.dying = TRUE]

\* tomb.Done
TombDone(t) == [Kill(t, "nil") EXCEPT !.dead = TRUE]

InvalidConfigNever(reopen, follow) == FALSE

\* File: the configuration check
InvalidConfig(reopen, follow) == reopen /\ ~follow

ReopenErrorAlways(e) == "ErrFileCreationDetectionFailure"

\* reopen: the error it returns when BlockUntilExists fails with e
ReopenError(e) == IF e = "ErrDying" THEN e ELSE "ErrFileCreationDetectionFailure"

\* tailFileSync: the tomb after the deferred first open failed with e
FirstOpenFailed(t, e) == IF e # "ErrDying" THEN Kill(t, e) ELSE t

WaitFailedIgnored(t, e) == t

\* tailFileSync: the tomb after waitForChanges returned e
WaitFailed(t, e) == IF e # "ErrStop" THEN Kill(t, e) ELSE t

SendsFragmentNever(follow, l) == FALSE

\* tailFileSync at io.EOF: the fragment is sent as the last line
SendsFragment(follow, l) == ~follow /\ l # <<>>

RewindsNever(follow, l) == FALSE

\* tailFileSync at io.EOF: the cursor is taken back to offset
Rewinds(follow, l) == follow /\ l # <<>>

ReopensDeletedAlways(reopen) == TRUE

ReopensDeletedNever(reopen) == FALSE

\* waitForChanges on Deleted: the file is reopened
ReopensDeleted(reopen) == reopen

ReopensTruncatedIfReOpen(reopen) == reopen

\* waitForChanges on Truncated: the file is reopened
ReopensTruncated(reopen) == TRUE

\* os.Open(Filename): the errors it can return with p at the path
OpenErrors(p) == IF p = 0 THEN {"ENOENT"} ELSE {"nil", "EACCES"}

\* Line{line, time.Now(), nil}
NewLine(text) == [Text |-> text, Err |-> "nil"]

NoLocation == [set |-> FALSE, Offset |-> 0, Whence |-> 0]
Locations == {NoLocation, [set |-> TRUE, Offset |-> 0, Whence |-> 2]}

Init ==
    /\ Location \in Locations
    /\ ReOpen \in BOOLEAN /\ MustExist \in BOOLEAN
    /\ Pipe \in BOOLEAN /\ Follow \in BOOLEAN
    /\ file = 0 /\ fpos = 0 /\ reader = "nil" /\ buf = <<>>
    /\ watcher = "nil" /\ changes = "nil"
    /\ tomb = [reason |-> "ErrStillAlive", dying |-> FALSE, dead |-> FALSE]
    /\ linesClosed = 0
    /\ handle = FALSE /\ startErr = "nil"
    /\ stopper = "idle" /\ stopResult = "nil"
    /\ pc = "start" /\ inWait = FALSE /\ offset = 0 /\ line = <<>> /\ err = "nil"
    /\ wIno = 0 /\ wSize = 0 /\ wAlive = FALSE
    /\ path = 0
    /\ data = [i \in 1..MaxFiles |-> <<>>]
    /\ nextIno = 1
    /\ truncs = 0 /\ written = 0
    /\ truncated = {}
    /\ emitted = <<>> /\ lastIno = 0 /\ startPos = 0
    /\ lastRotate = "none" /\ ioFailed = FALSE /\ openHandles = 0
    /\ afterStop = 0

\* --------------------------------------------------------------- the caller
FileDeferringOpen ==
    /\ pc = "start"
    /\ IF ReOpen /\ ~Follow
       THEN /\ startErr' = "ErrInvalidConfig"
            /\ pc' = "nostart"
            /\ UNCHANGED <<watcher, handle>>
       ELSE /\ watcher' = "created"
            /\ handle' = TRUE
            /\ pc' = "open"
            /\ UNCHANGED startErr
    /\ UNCHANGED <<cfgVars, file, fpos, reader, buf, changes, tomb, linesClosed, stopper,
                   stopResult, inWait, offset, line, err, watchVars, fsVars, histVars>>

\* File (tail.go 74-105)
File ==
    /\ pc = "start"
    /\ IF InvalidConfig(ReOpen, Follow)
       THEN /\ startErr' = "ErrInvalidConfig"
            /\ pc' = "nostart"
            /\ UNCHANGED <<file, fpos, watcher, handle, lastIno, openHandles>>
       ELSE /\ watcher' = "created"
            /\ IF MustExist
               THEN \E e \in OpenErrors(path) :
                    IF e # "nil"
                    THEN /\ startErr' = e
                         /\ pc' = "nostart"
                         /\ UNCHANGED <<file, fpos, handle, lastIno, openHandles>>
                    ELSE /\ file' = path
                         /\ fpos' = 0
                         /\ lastIno' = path
                         /\ openHandles' = openHandles + 1
                         /\ handle' = TRUE
                         /\ pc' = "seekLocation"
                         /\ UNCHANGED startErr
               ELSE /\ handle' = TRUE
                    /\ pc' = "open"
                    /\ UNCHANGED <<file, fpos, startErr, lastIno, openHandles>>
    /\ UNCHANGED <<cfgVars, reader, buf, changes, tomb, linesClosed, stopper, stopResult,
                   inWait, offset, line, err, watchVars, fsVars,
                   emitted, startPos, lastRotate, ioFailed, afterStop>>

\* Stop (tail.go 124-127): tail.Kill(nil)
StopKill ==
    /\ handle /\ stopper = "idle"
    /\ tomb' = Kill(tomb, "nil")
    /\ stopper' = "waiting"
    /\ UNCHANGED <<cfgVars, file, fpos, reader, buf, watcher, changes, linesClosed,
                   handle, startErr, stopResult, loopVars, watchVars, fsVars, histVars>>

\* Stop (tail.go 124-127): return tail.Wait()
StopWait ==
    /\ stopper = "waiting" /\ tomb.dead
    /\ stopResult' = tomb.reason
    /\ stopper' = "returned"
    /\ UNCHANGED <<cfgVars, tailVars, handle, startErr, loopVars, watchVars, fsVars, histVars>>

\* ------------------------------------------------------------- the loop task
closeFileLeaves == UNCHANGED <<file, fpos, openHandles, reader>>

\* closeFile (tail.go 134-139), as the primed part of the step that calls it
closeFile ==
    /\ file' = 0
    /\ fpos' = 0
    /\ openHandles' = IF file # 0 THEN openHandles - 1 ELSE openHandles
    /\ reader' = IF file # 0 /\ reader = "attached" THEN "stale" ELSE reader

\* reopen (tail.go 146-161): one round of the loop, os.Open
Open ==
    /\ pc = "open"
    /\ \E e \in OpenErrors(path) :
       IF e = "nil"
       THEN /\ file' = path
            /\ fpos' = 0
            /\ lastIno' = path
            /\ openHandles' = openHandles + 1
            /\ pc' = IF inWait THEN "openReader" ELSE "seekLocation"
            /\ UNCHANGED <<tomb, ioFailed>>
       ELSE IF e = "ENOENT"
       THEN /\ file' = 0
            /\ pc' = "blockUntilExists"
            /\ UNCHANGED <<fpos, lastIno, openHandles, tomb, ioFailed>>
       ELSE \* return ErrFileOpen (158) to 186-191 or, through 292-293 / 305-306, to 246-251
            /\ file' = 0
            /\ tomb' = IF inWait THEN WaitFailed(tomb, "ErrFileOpen")
                       ELSE FirstOpenFailed(tomb, "ErrFileOpen")
            /\ ioFailed' = TRUE
            /\ pc' = "close"
            /\ UNCHANGED <<fpos, lastIno, openHandles>>
    /\ UNCHANGED <<cfgVars, reader, buf, watcher, changes, linesClosed, callerVars,
                   inWait, offset, line, err, watchVars, fsVars,
                   emitted, startPos, lastRotate, afterStop>>

\* reopen (tail.go 150-156): BlockUntilExists returned nil, the loop continues
BlockExists ==
    /\ pc = "blockUntilExists"
    /\ path # 0
    /\ pc' = "open"
    /\ UNCHANGED <<cfgVars, tailVars, callerVars, inWait, offset, line, err, watchVars,
                   fsVars, histVars>>

\* reopen (tail.go 150-153) returns tomb.ErrDying; its caller (186-191 or
\* 246-251 through 292-293 / 305-306) ends the loop
BlockDying ==
    /\ pc = "blockUntilExists"
    /\ tomb.dying
    /\ tomb' = IF inWait THEN WaitFailed(tomb, ReopenError("ErrDying"))
               ELSE FirstOpenFailed(tomb, ReopenError("ErrDying"))
    /\ pc' = "close"
    /\ UNCHANGED <<cfgVars, file, fpos, reader, buf, watcher, changes, linesClosed,
                   callerVars, inWait, offset, line, err, watchVars, fsVars, histVars>>

\* reopen (tail.go 150-154): BlockUntilExists failed, reopen returns
\* ErrFileCreationDetectionFailure and its caller ends the loop
BlockFailed ==
    /\ pc = "blockUntilExists"
    /\ tomb' = IF inWait THEN WaitFailed(tomb, ReopenError("EIO"))
               ELSE FirstOpenFailed(tomb, ReopenError("EIO"))
    /\ ioFailed' = TRUE
    /\ pc' = "close"
    /\ UNCHANGED <<cfgVars, file, fpos, reader, buf, watcher, changes, linesClosed,
                   callerVars, inWait, offset, line, err, watchVars, fsVars,
                   emitted, lastIno, startPos, lastRotate, openHandles, afterStop>>

SeekLocationSkipped ==
    /\ pc = "seekLocation"
    /\ pc' = "openReader"
    /\ UNCHANGED <<cfgVars, tailVars, callerVars, inWait, offset, line, err, watchVars,
                   fsVars, histVars>>

\* tailFileSync (tail.go 194-201): the seek to Location on the first open
SeekLocation ==
    /\ pc = "seekLocation"
    /\ LET s == Seek(Location.Offset, Location.Whence, fpos, Len(data[file])) IN
       IF Location.set /\ s.err # "nil"
       THEN /\ tomb' = Kill(tomb, "SeekError")
            /\ ioFailed' = TRUE
            /\ pc' = "close"
            /\ UNCHANGED fpos
       ELSE /\ fpos' = IF Location.set THEN s.pos ELSE fpos
            /\ pc' = "openReader"
            /\ UNCHANGED <<tomb, ioFailed>>
    /\ UNCHANGED <<cfgVars, file, reader, buf, watcher, changes, linesClosed, callerVars,
                   inWait, offset, line, err, watchVars, fsVars,
                   emitted, lastIno, startPos, lastRotate, openHandles, afterStop>>

\* openReader (tail.go 318-320), called at 203, 297 and 310
openReader ==
    /\ pc = "openReader"
    /\ reader' = "attached"
    /\ buf' = <<>>
    /\ startPos' = fpos
    /\ emitted' = <<>>
    /\ pc' = IF inWait THEN "checkDying" ELSE "tell"
    /\ inWait' = FALSE
    /\ UNCHANGED <<cfgVars, file, fpos, watcher, changes, tomb, linesClosed, callerVars,
                   offset, line, err, watchVars, fsVars,
                   lastIno, lastRotate, ioFailed, openHandles, afterStop>>

\* tailFileSync (tail.go 210-218): offset, err = tail.Tell() unless Pipe
TellStep ==
    /\ pc = "tell"
    /\ IF Pipe
       THEN /\ pc' = "readLine"
            /\ UNCHANGED <<offset, tomb, ioFailed>>
       ELSE IF Tell.err # "nil"
            THEN /\ tomb' = Kill(tomb, Tell.err)
                 /\ ioFailed' = TRUE
                 /\ pc' = "close"
                 /\ UNCHANGED offset
            ELSE /\ offset' = Tell.offset
                 /\ pc' = "readLine"
                 /\ UNCHANGED <<tomb, ioFailed>>
    /\ UNCHANGED <<cfgVars, file, fpos, reader, buf, watcher, changes, linesClosed,
                   callerVars, inWait, line, err, watchVars, fsVars,
                   emitted, lastIno, startPos, lastRotate, openHandles, afterStop>>

\* tailFileSync (tail.go 220-257): line, err := tail.readLine() and the
\* branch taken on its result
ReadLine ==
    /\ pc = "readLine"
    /\ \E e \in {"nil", "EIO"} :
       IF e # "nil" \/ reader # "attached" \/ file = 0
       THEN \* read(2) failed, or the reader's handle is closed: an error other
            \* than EOF (253-255)
            /\ tomb' = Kill(tomb, "ReadError")
            /\ ioFailed' = TRUE
            /\ err' = "EIO"
            /\ pc' = "close"
            /\ UNCHANGED <<fpos, buf, line>>
       ELSE LET r == readLine(buf, fpos, data[file]) IN
            /\ fpos' = r.fpos
            /\ buf' = r.buf
            /\ line' = r.line
            /\ err' = r.err
            /\ pc' = IF r.err = "nil" THEN "sendLine"
                     ELSE IF ~Follow
                          THEN IF SendsFragment(Follow, r.line) THEN "sendLine" ELSE "close"
                          ELSE IF Rewinds(Follow, r.line) THEN "seekTo"
                               ELSE "waitForChanges"
            /\ UNCHANGED <<tomb, ioFailed>>
    /\ UNCHANGED <<cfgVars, file, reader, watcher, changes, linesClosed, callerVars,
                   inWait, offset, watchVars, fsVars,
                   emitted, lastIno, startPos, lastRotate, openHandles, afterStop>>

\* sendLine (tail.go 338-340): the send on tail.Lines, which completes when
\* the consumer receives; after the fragment sent at EOF the loop returns
SendLine ==
    /\ pc = "sendLine"
    /\ linesClosed = 0
    /\ emitted' = Append(emitted, NewLine(line))
    /\ line' = <<>>  \* the local is not read again before readLine assigns it
    /\ afterStop' = IF stopper # "idle" THEN afterStop + 1 ELSE afterStop
    /\ pc' = IF err = "EOF" THEN "close" ELSE "checkDying"
    /\ UNCHANGED <<cfgVars, tailVars, callerVars, inWait, offset, err, watchVars,
                   fsVars, lastIno, startPos, lastRotate, ioFailed, openHandles>>

\* tailFileSync (tail.go 234-242) with seekTo (326-335)
SeekTo ==
    /\ pc = "seekTo"
    /\ LET s == Seek(offset, 0, fpos, Len(data[file])) IN
       IF s.err # "nil"
       THEN /\ tomb' = Kill(tomb, "ErrSeek")
            /\ ioFailed' = TRUE
            /\ pc' = "close"
            /\ UNCHANGED <<fpos, buf>>
       ELSE /\ fpos' = s.pos
            /\ buf' = <<>>
            /\ pc' = "waitForChanges"
            /\ UNCHANGED <<tomb, ioFailed>>
    /\ UNCHANGED <<cfgVars, file, reader, watcher, changes, linesClosed, callerVars,
                   inWait, offset, line, err, watchVars, fsVars,
                   emitted, lastIno, startPos, lastRotate, openHandles, afterStop>>

\* waitForChanges (tail.go 270-282): the errors of tail.file.Seek and of
\* tail.watcher.ChangeEvents, which is called when the seek succeeded
ChangeEventsErrors(ch, seekErr) ==
    IF ch # "nil" THEN {"nil"}
    ELSE IF seekErr # "nil" THEN {seekErr}
    ELSE {"nil", "ErrWatch"}

\* waitForChanges (tail.go 270-282): the ChangeEvents of the first wait
WaitForChanges ==
    /\ pc = "waitForChanges"
    /\ LET s == Seek(0, 1, fpos, Len(data[file])) IN
       \E e \in ChangeEventsErrors(changes, s.err) :
       IF changes = "nil" /\ e # "nil"
       THEN /\ tomb' = WaitFailed(tomb, e)
            /\ ioFailed' = TRUE
            /\ pc' = "close"
            /\ UNCHANGED <<changes, watchVars>>
       ELSE /\ IF changes = "nil"
               THEN /\ changes' = "set"
                    /\ wIno' = file
                    /\ wSize' = s.pos
                    /\ wAlive' = TRUE
               ELSE UNCHANGED <<changes, watchVars>>
            /\ pc' = "select"
            /\ UNCHANGED <<tomb, ioFailed>>
    /\ UNCHANGED <<cfgVars, file, fpos, reader, buf, watcher, linesClosed, callerVars,
                   inWait, offset, line, err, fsVars,
                   emitted, lastIno, startPos, lastRotate, openHandles, afterStop>>

\* waitForChanges (tail.go 286-287): case <-tail.changes.Modified
RecvModified ==
    /\ pc' = "checkDying"
    /\ UNCHANGED <<lastRotate, file, fpos, reader, changes, inWait, openHandles>>

\* waitForChanges (tail.go 288-302): case <-tail.changes.Deleted
RecvDeleted ==
    /\ lastRotate' = "Deleted"
    /\ changes' = "nil"
    /\ IF ReopensDeleted(ReOpen)
       THEN /\ closeFile
            /\ inWait' = TRUE
            /\ pc' = "open"
       ELSE /\ pc' = "close"
            /\ UNCHANGED <<file, fpos, reader, inWait, openHandles>>

\* waitForChanges (tail.go 303-312): case <-tail.changes.Truncated
RecvTruncated ==
    /\ lastRotate' = "Truncated"
    /\ IF ReopensTruncated(ReOpen)
       THEN /\ closeFile
            /\ inWait' = TRUE
            /\ pc' = "open"
       ELSE /\ pc' = "close"
            /\ UNCHANGED <<file, fpos, reader, inWait, openHandles>>
    /\ UNCHANGED changes

SelectDyingNever == FALSE /\ UNCHANGED vars

\* waitForChanges (tail.go 313-314): case <-tail.Dying()
SelectDying ==
    /\ pc = "select"
    /\ tomb.dying
    /\ tomb' = WaitFailed(tomb, "ErrStop")
    /\ pc' = "close"
    /\ UNCHANGED <<cfgVars, file, fpos, reader, buf, watcher, changes, linesClosed,
                   callerVars, inWait, offset, line, err, watchVars, fsVars, histVars>>

CheckDyingNever ==
    /\ pc = "checkDying"
    /\ pc' = "tell"
    /\ UNCHANGED <<cfgVars, tailVars, callerVars, inWait, offset, line, err, watchVars,
                   fsVars, histVars>>

\* tailFileSync (tail.go 259-263): select on tail.Dying() with default
CheckDying ==
    /\ pc = "checkDying"
    /\ pc' = IF tomb.dying THEN "close" ELSE "tell"
    /\ UNCHANGED <<cfgVars, tailVars, callerVars, inWait, offset, line, err, watchVars,
                   fsVars, histVars>>

\* close (tail.go 129-132), deferred at 182
Close ==
    /\ pc = "close"
    /\ linesClosed' = linesClosed + 1
    /\ closeFile
    /\ pc' = "done"
    /\ UNCHANGED <<cfgVars, buf, watcher, changes, tomb, callerVars, inWait, offset, line,
                   err, watchVars, fsVars,
                   emitted, lastIno, startPos, lastRotate, ioFailed, afterStop>>

\* tail.Done(), deferred at 181
Done ==
    /\ pc = "done"
    /\ tomb' = TombDone(tomb)
    /\ pc' = "exit"
    /\ UNCHANGED <<cfgVars, file, fpos, reader, buf, watcher, changes, linesClosed,
                   callerVars, inWait, offset, line, err, watchVars, fsVars, histVars>>

\* ------------------------------------------------------------- the watcher
\* sendOnlyIfEmpty (filechanges.go 55-60) on a channel made without a buffer
\* (23-30): the send happens only when the loop is blocked in the select of
\* waitForChanges, and then the loop takes the case recv; otherwise the
\* occurrence is dropped.
sendOnlyIfEmpty(recv) ==
    IF pc = "select" THEN recv
    ELSE UNCHANGED <<pc, lastRotate, file, fpos, reader, changes, inWait, openHandles>>

\* the watcher sees the file grown: NotifyModified (filechanges.go 32-34)
WatchModified ==
    /\ wAlive /\ path = wIno /\ Len(data[wIno]) > wSize
    /\ wSize' = Len(data[wIno])
    /\ sendOnlyIfEmpty(RecvModified)
    /\ UNCHANGED <<cfgVars, buf, watcher, tomb, linesClosed, callerVars, offset, line, err,
                   wIno, wAlive, fsVars, emitted, lastIno, startPos, ioFailed, afterStop>>

\* the watcher sees the file shrunk: NotifyTruncated (filechanges.go 36-38)
WatchTruncated ==
    /\ wAlive /\ path = wIno /\ Len(data[wIno]) < wSize
    /\ wSize' = Len(data[wIno])
    /\ sendOnlyIfEmpty(RecvTruncated)
    /\ UNCHANGED <<cfgVars, buf, watcher, tomb, linesClosed, callerVars, offset, line, err,
                   wIno, wAlive, fsVars, emitted, lastIno, startPos, ioFailed, afterStop>>

\* the watcher sees the file gone or replaced: NotifyDeleted (filechanges.go
\* 40-42), after which it ends
WatchDeleted ==
    /\ wAlive /\ path # wIno
    /\ wAlive' = FALSE
    /\ sendOnlyIfEmpty(RecvDeleted)
    /\ UNCHANGED <<cfgVars, buf, watcher, tomb, linesClosed, callerVars, offset, line, err,
                   wIno, wSize, fsVars, emitted, lastIno, startPos, ioFailed, afterStop>>

\* --------------------------------------------------------- the file system
\* a writer appends one byte to the file at the path
AppendByte ==
    /\ path # 0 /\ written < MaxLen
    /\ pc \notin {"exit", "nostart"}
    /\ \E c \in Chars : data' = [data EXCEPT ![path] = Append(@, c)]
    /\ written' = written + 1
    /\ UNCHANGED <<cfgVars, tailVars, callerVars, loopVars, watchVars, path, nextIno,
                   truncs, truncated, histVars>>

\* a writer truncates the file at the path to length 0
Truncate ==
    /\ path # 0 /\ Len(data[path]) > 0 /\ truncs < MaxTruncs
    /\ pc \notin {"exit", "nostart"}
    /\ data' = [data EXCEPT ![path] = <<>>]
    /\ truncs' = truncs + 1
    /\ truncated' = truncated \cup {path}
    /\ UNCHANGED <<cfgVars, tailVars, callerVars, loopVars, watchVars, path, nextIno,
                   written, histVars>>

\* the file at the path is removed or renamed away
Delete ==
    /\ path # 0
    /\ path' = 0
    /\ UNCHANGED <<cfgVars, tailVars, callerVars, loopVars, watchVars, data, nextIno,
                   truncs, written, truncated, histVars>>

\* a new, empty file is created at the path
Create ==
    /\ path = 0 /\ nextIno <= MaxFiles
    /\ path' = nextIno
    /\ nextIno' = nextIno + 1
    /\ UNCHANGED <<cfgVars, tailVars, callerVars, loopVars, watchVars, data,
                   truncs, written, truncated, histVars>>

\* ------------------------------------------------------------ specification
LoopStep ==
    \/ Open \/ BlockExists \/ BlockDying \/ BlockFailed \/ SeekLocation \/ openReader \/ TellStep
    \/ ReadLine \/ SeekTo \/ WaitForChanges \/ SelectDying \/ CheckDying \/ Close \/ Done

Next ==
    \/ File \/ StopKill \/ StopWait
    \/ LoopStep
    \/ SendLine
    \/ WatchModified \/ WatchTruncated \/ WatchDeleted
    \/ AppendByte \/ Truncate \/ Delete \/ Create

Spec == Init /\ [][Next]_vars

\* the goroutine tailFileSync and the caller blocked in Stop are scheduled
\* whenever they can take a step; nothing makes the consumer receive, the
\* watcher notify or the writers write
FairSpec == Spec /\ WF_vars(LoopStep) /\ WF_vars(StopWait)

\* as FairSpec, with a consumer that keeps receiving from Lines
DrainSpec == FairSpec /\ WF_vars(SendLine)

\* the watcher goroutine behind tail.changes
WatchStep == WatchModified \/ WatchTruncated \/ WatchDeleted

\* as DrainSpec, with a watcher that notices every change of the file it
\* watches; nothing makes the writers write
WatchSpec == DrainSpec /\ WF_vars(WatchStep)

\* ------------------------------------------------- vocabulary of the claims
\* positions of the terminators of s
NLs(s) == {i \in 1..Len(s) : s[i] = NL}
\* position of the k-th terminator of s
NthNL(s, k) == CHOOSE i \in NLs(s) : Cardinality({j \in NLs(s) : j <= i}) = k
\* the newline-terminated lines of s, terminators stripped, in order
TerminatedLines(s) ==
    [k \in 1..Cardinality(NLs(s)) |->
        SubSeq(s, (IF k = 1 THEN 1 ELSE NthNL(s, k - 1) + 1), NthNL(s, k) - 1)]
\* what follows the last terminator of s
Fragment(s) ==
    IF NLs(s) = {} THEN s ELSE SubSeq(s, NthNL(s, Cardinality(NLs(s))) + 1, Len(s))
\* the terminated lines of s, then its final fragment when that is not empty
AllLines(s) ==
    TerminatedLines(s) \o (IF Fragment(s) # <<>> THEN <<Fragment(s)>> ELSE <<>>)
\* s from byte offset p on
From(s, p) == SubSeq(s, p + 1, Len(s))
IsPrefix(a, b) == Len(a) <= Len(b) /\ SubSeq(b, 1, Len(a)) = a
Texts(e) == [i \in 1..Len(e) |-> e[i].Text]
\* bytes of the file that the first k delivered lines and their terminators take
RECURSIVE Consumed(_, _)
Consumed(e, k) == IF k = 0 THEN 0 ELSE Consumed(e, k - 1) + Len(e[k].Text) + 1

\* the file first created at the path is still there and was never truncated
AppendOnly == truncated = {} /\ nextIno <= 2 /\ (nextIno = 2 => path = 1)
\* the loop holds an open file with a reader attached to it
Reading == pc \in {"tell", "readLine", "sendLine", "seekTo", "waitForChanges", "select",
                   "checkDying"}
Ended == pc \in {"close", "done", "exit"}

\* ------------------------------------------------------------------ claims
\* C1: with Follow = FALSE the loop never waits on the change notifier; it
\* reports end-of-data only with the cursor at the end of the file and the
\* buffer drained; when it then goes on to close, the lines delivered are the
\* newline-terminated lines of the file from the start position, in order,
\* followed by the final fragment exactly when that is not empty; and it ends
\* with Lines closed once and no terminal error.
C1_NoFollowDeliversAll ==
    [][~Follow =>
        /\ changes' = "nil" /\ pc' \notin {"seekTo", "waitForChanges", "select"}
        /\ (pc = "readLine" /\ pc' \in {"sendLine", "close"} /\ err' = "EOF"
              => fpos' >= Len(data[file]) /\ buf' = <<>>)
        /\ (pc' = "close" /\ err' = "EOF" /\ file' \notin truncated'
              => Texts(emitted') = AllLines(SubSeq(data'[file'], startPos' + 1, fpos')))
        /\ (pc' = "exit" /\ ~ioFailed'
              => linesClosed' = 1 /\ tomb'.dead /\ tomb'.reason = "nil")
    ]_vars

\* C1 witness: "\nx" read to the end with Follow = FALSE: both the empty line
\* and the fragment were delivered and the loop ended without error
C1_Witness ==
    /\ ~Follow /\ pc = "exit" /\ lastIno = 1
    /\ data[1] = <<NL, "x">>
    /\ Texts(emitted) = << <<>>, <<"x">> >>
    /\ linesClosed = 1 /\ tomb.reason = "nil"

C4_StopReturns == (stopper = "waiting") ~> (stopper = "returned" /\ tomb.dead)

\* C4, the part that holds: once Stop is requested the loop terminates and
\* Stop returns, from whatever position the loop is in, provided the consumer
\* receives the line the loop is handing over or hands over next (DrainSpec).
C4_StopReturnsWhenDrained == (stopper = "waiting") ~> (stopper = "returned" /\ pc = "exit")

\* C4 witness: Stop returned after the loop, which had followed the file
\* into a wait and delivered a line, terminated
C4_Witness ==
    /\ stopper = "returned" /\ pc = "exit" /\ tomb.dead
    /\ Follow /\ changes = "set" /\ Len(emitted) > 0

\* C5: once the caller has requested Stop, and as long as no system call has
\* failed, the terminal error of the tomb is nil, and nil is what Stop
\* returns, whichever wait the request interrupted.
C5_StopLeavesNoError ==
    stopper # "idle" /\ ~ioFailed
        => tomb.reason = "nil" /\ (stopper = "returned" => stopResult = "nil")

\* C5 witness: Stop interrupted the open-with-retry of the reopen that
\* followed Deleted (the loop ended inside reopen) and returned nil
C5_Witness ==
    /\ stopper = "returned" /\ stopResult = "nil"
    /\ pc = "exit" /\ inWait /\ lastRotate = "Deleted" /\ ReOpen /\ path = 0

\* C6: with Follow set and ReOpen not, once the loop has received Deleted it
\* is on its way out: it delivers no further line, opens no file again, closes
\* Lines once and ends with no terminal error.
C6_DeletedEndsCleanly ==
    [][Follow /\ ~ReOpen /\ lastRotate' = "Deleted" =>
        /\ Ended'
        /\ tomb'.reason \in {"ErrStillAlive", "nil"}
        /\ (pc' = "exit" => tomb'.dead /\ tomb'.reason = "nil" /\ linesClosed' = 1
                            /\ file' = 0)
        /\ (lastRotate = "Deleted"
              => emitted' = emitted /\ lastIno' = lastIno /\ openHandles' <= openHandles)
    ]_vars

\* C6 witness: the loop ended on Deleted after delivering a line, and a new
\* file now stands at the path, unopened
C6_Witness ==
    /\ Follow /\ ~ReOpen /\ lastRotate = "Deleted" /\ pc = "exit"
    /\ Len(emitted) > 0 /\ path = 2 /\ lastIno = 1 /\ tomb.reason = "nil"

\* C7: with Follow and ReOpen set, Deleted never ends the loop (only a stop
\* request or a fatal error does); while the reopen waits for the path the old
\* handle is closed and no error is recorded; and the lines delivered since a
\* reopen caused by Deleted are a prefix of the new file's lines from offset 0.
C7_DeletedReopens ==
    Follow /\ ReOpen =>
        /\ pc = "close" => tomb.dying
        /\ inWait /\ pc \in {"open", "blockUntilExists"}
              => /\ file = 0 /\ openHandles = 0
                 /\ (~ioFailed => tomb.reason \in {"ErrStillAlive", "nil"})
        /\ lastRotate = "Deleted" /\ Reading
              => /\ startPos = 0 /\ file = lastIno /\ file # 0 /\ reader = "attached"
                 /\ (file \notin truncated
                       => IsPrefix(Texts(emitted), TerminatedLines(data[file])))

\* C7 witness: file 1 held "x", was deleted, file 2 was created and the loop,
\* having reopened, delivered file 2's first line and nothing of file 1
C7_Witness ==
    /\ Follow /\ ReOpen /\ lastRotate = "Deleted"
    /\ file = 2 /\ data[1] = <<"x">> /\ data[2] = <<NL>>
    /\ Texts(emitted) = << <<>> >> /\ tomb.reason = "ErrStillAlive"

\* C8: after the loop has received Truncated, with ReOpen set or not, it is
\* reopening with the old handle closed, or reading the reopened file with a
\* reader attached to it; it ends only on a stop request or a fatal error,
\* and no terminal error is recorded unless a system call failed.
C8_TruncatedReopens ==
    lastRotate = "Truncated" =>
        /\ pc = "close" => tomb.dying
        /\ ~ioFailed => tomb.reason \in {"ErrStillAlive", "nil"}
        /\ inWait /\ pc \in {"open", "blockUntilExists"} => file = 0 /\ openHandles = 0
        /\ Reading => reader = "attached" /\ file = lastIno /\ file # 0
                      /\ openHandles = 1 /\ startPos = 0

\* C8 witness: without ReOpen, the file was truncated, the loop reopened it
\* and delivered the line written after the truncation
C8_Witness ==
    /\ ~ReOpen /\ lastRotate = "Truncated" /\ 1 \in truncated
    /\ file = 1 /\ Reading /\ Texts(emitted) = << <<>> >>
    /\ tomb.reason = "ErrStillAlive"

\* C9: when the tomb is dead Lines has been closed and the handle released;
\* Lines is closed at most once, and exactly once when the loop has exited;
\* no line is delivered once Lines is closed.
C9_ClosedOnceOnExit ==
    [][ /\ tomb'.dead => linesClosed' = 1 /\ file' = 0 /\ openHandles' = 0
        /\ linesClosed' <= 1
        /\ pc' = "exit" => tomb'.dead /\ linesClosed' = 1
        /\ linesClosed >= 1 => emitted' = emitted
    ]_vars

\* C9 witness: the loop died of a fatal seek error after delivering a line,
\* with Lines closed and no handle left
C9_Witness ==
    /\ tomb.dead /\ pc = "exit" /\ ioFailed /\ tomb.reason = "ErrSeek"
    /\ Len(emitted) > 0 /\ linesClosed = 1 /\ file = 0

\* C10: File called with ReOpen and without Follow returns ErrInvalidConfig
\* and nothing else happens: no handle is returned, no watcher created, no
\* file opened, no loop started.
C10_InvalidConfigRejected ==
    ReOpen /\ ~Follow /\ pc # "start"
        => /\ pc = "nostart" /\ startErr = "ErrInvalidConfig" /\ ~handle
           /\ watcher = "nil" /\ file = 0 /\ lastIno = 0 /\ openHandles = 0
           /\ reader = "nil" /\ tomb.reason = "ErrStillAlive"

\* C10 witness: File was called with ReOpen, MustExist and no Follow on an
\* existing file and returned
C10_Witness ==
    /\ ReOpen /\ ~Follow /\ MustExist /\ pc = "nostart" /\ path # 0
    /\ startErr = "ErrInvalidConfig"

C12_TellWithinSize ==
    handle /\ file # 0 /\ Tell.err = "nil" => Tell.offset <= Len(data[file])

\* C13: once a system call has failed (open other than not-found, the
\* existence wait, the seek to Location, the rewind, the seek or ChangeEvents
\* of waitForChanges, a read other than end-of-data) the loop is on its way
\* out and delivers nothing more, the tomb is dying with a terminal error that
\* is not nil, and when the loop has exited Lines is closed and the tomb dead;
\* no Line delivered carries an error.
C13_FatalEndsWithError ==
    [][ /\ ioFailed' =>
              /\ Ended' /\ tomb'.dying
              /\ tomb'.reason \notin {"ErrStillAlive", "nil"}
              /\ pc' = "exit" => linesClosed' = 1 /\ tomb'.dead /\ file' = 0
        /\ ioFailed => emitted' = emitted /\ tomb'.reason = tomb.reason
        /\ \A k \in 1..Len(emitted') : emitted'[k].Err = "nil"
    ]_vars

\* C13 witness: following a file, the loop delivered a line, waited, woke on
\* Modified, and the next read failed: it exited with ReadError on the tomb
\* and Lines closed
C13_Witness ==
    /\ Follow /\ pc = "exit" /\ ioFailed /\ tomb.reason = "ReadError" /\ tomb.dead
    /\ changes = "set" /\ Len(emitted) > 0 /\ linesClosed = 1
    /\ \A k \in 1..Len(emitted) : emitted[k].Err = "nil"

\* C14 as stated: while the loop follows a file that is only appended to,
\* with no stop request, a consumer that keeps receiving and a watcher that
\* notices every growth (WatchSpec), once the file holds k complete lines from
\* the start position the consumer eventually has received k lines, unless
\* the loop ends on a fatal error.
C14_AppendedLineEmitted ==
    \A k \in 1..MaxLen :
        (Follow /\ AppendOnly /\ stopper = "idle" /\ Reading
            /\ Len(TerminatedLines(From(data[lastIno], startPos))) >= k)
        ~> (Len(emitted) >= k \/ ~AppendOnly \/ stopper # "idle" \/ Ended)

\* C15 as stated: once File has returned the *Tail, a call of Tell never
\* faults: whenever tail.file is set, tail.reader is the reader attached to
\* that file.
C15_TellNeverFaults ==
    handle => Tell.err # "panic" /\ (file # 0 => reader = "attached")

\* C16 as stated: with Pipe set the loop records no offset before a read and
\* never performs the rewind of seekTo.
C16_PipeNeverSeeks ==
    [][Pipe => offset' = offset /\ ~(pc = "seekTo" /\ pc' # "seekTo")]_vars

\* C17 as stated: during every reopen made by waitForChanges, after Deleted
\* or after Truncated, tail.changes is nil, and whenever the loop waits in the
\* select the watcher behind tail.changes watches the file now open.
C17_ReopenDiscardsNotifier ==
    /\ inWait => changes = "nil"
    /\ pc = "select" => changes = "set" /\ wIno = file

\* C18: the seek to Location happens on the first open only, before any
\* reader exists and before any line is delivered, and it leaves the cursor
\* where Location says (here the end of the file, or the start when no
\* Location is given); the first reader starts reading at that cursor.  A
\* reopen made by waitForChanges goes from the open straight to openReader:
\* the new reader starts at offset 0 of the new handle with an empty buffer.
C18_SeekOnFirstOpenOnly ==
    [][ /\ pc' = "seekLocation" =>
              ~inWait' /\ reader' = "nil" /\ lastRotate' = "none" /\ emitted' = <<>>
              /\ fpos' = 0
        /\ pc = "seekLocation" /\ pc' = "openReader" =>
              fpos' = IF Location.set THEN Len(data[file]) ELSE 0
        /\ pc = "open" /\ pc' \in {"seekLocation", "openReader"} =>
              /\ fpos' = 0 /\ file' = path /\ file' # 0
              /\ pc' = IF inWait THEN "openReader" ELSE "seekLocation"
        /\ pc = "openReader" /\ pc' # "openReader" =>
              /\ reader' = "attached" /\ buf' = <<>> /\ startPos' = fpos /\ fpos' = fpos
              /\ inWait => fpos = 0 /\ lastRotate # "none"
              /\ ~inWait => lastRotate = "none" /\ reader = "nil"
    ]_vars

\* C18 witness: tailing "x\n" from Location {0, SEEK_END}, the loop skipped
\* the line, waited, the file was truncated and "\n" written, and the loop,
\* reopened, reads from offset 0 of it: it delivered that line
C18_Witness ==
    /\ Location.set /\ lastRotate = "Truncated" /\ Reading
    /\ startPos = 0 /\ data[file] = <<NL>> /\ Texts(emitted) = << <<>> >>
    /\ written = 2 /\ tomb.reason = "ErrStillAlive"

\* C19: the consumer receives at most one Line after Stop has called Kill;
\* and once Stop has called Kill, a loop that is past the delivery of its
\* iteration, is waiting for a change or is reopening after one (and so also
\* one that wakes on Modified, Deleted or Truncated) does not start another
\* read.
C19_AtMostOneLineAfterStop ==
    [][ /\ afterStop' <= 1
        /\ stopper # "idle" /\ (pc \in {"checkDying", "seekTo", "waitForChanges", "select",
                                         "close", "done", "exit"}
                                \/ (inWait /\ pc \in {"open", "blockUntilExists",
                                                       "openReader"}))
              => pc' \notin {"tell", "readLine", "sendLine"}
        /\ stopper # "idle" /\ pc = "select" /\ pc' = "checkDying" => afterStop' = afterStop
    ]_vars

\* C19 witness: Stop was requested while the loop was reading "\n\n"; the
\* consumer received one more line and the loop exited with the second line
\* unread
C19_Witness ==
    /\ afterStop = 1 /\ pc = "exit" /\ stopper # "idle" /\ tomb.reason = "nil"
    /\ lastIno = 1 /\ data[1] = <<NL, NL>> /\ startPos = 0 /\ Len(emitted) = 1

====
